---- MODULE Spec2Model ----
(***************************************************************************)
(* A model of codesample::matrix<T> (src/matrix.h): the row-major store    *)
(* _data, the single-slot transpose cache _cache, the accessors, the       *)
(* memoizing transpose(), dot() and multiply(), and the comparisons.       *)
(*                                                                         *)
(* The C++ code indexes from 0; sequences here index from 1, so the code's *)
(* row i is data[i + 1].  The element type T is modelled by the integers   *)
(* with T() = 0.                                                           *)
(***************************************************************************)
EXTENDS Integers, Sequences, FiniteSets, TLC

\* ---------------------------------------------------------------- bounds
\* largest number of rows of a constructed matrix
MaxRows == 2
\* largest number of columns of a constructed matrix
MaxCols == 2
\* largest number of elements (rows * columns) of a constructed matrix
MaxCells == 4
\* largest number of elements of each matrix when two matrices are aliased
MaxPairCells == 2
\* how many row references a caller keeps alive at a time
MaxRefs == 1
MaxChainCells == 1

\* the element values callers store: T() and one more value of T
Vals == {0, 1}

\* T(): the value-initialised element, matrix(rows, cols, value = T())
Zero == 0

\* ------------------------------------------------------------- the state
VARIABLES
    mats,   \* the live matrix objects: object id -> [data, cache]
    refs,   \* row references (std::vector<T>&) the caller still holds
    last    \* the operation that ran last, with what it returned or threw

vars == <<mats, refs, last>>

\* ------------------------------------------------- construction / queries

\* matrix() = default
MatrixDefault == [data |-> <<>>, cache |-> <<>>]

\* a constructor that fills with T() whatever value it is given
MatrixFill_IgnoresValue(nrows, ncols, value) ==
    [data |-> [i \in 1..nrows |-> [j \in 1..ncols |-> Zero]], cache |-> <<>>]

\* matrix(size_t rows, size_t cols, T value)
MatrixFill(nrows, ncols, value) ==
    [data |-> [i \in 1..nrows |-> [j \in 1..ncols |-> value]], cache |-> <<>>]

\* matrix(std::initializer_list<...>) and matrix(std::vector<std::vector<T>>&)
MatrixList(new_data) == [data |-> new_data, cache |-> <<>>]

\* size_t rows() const
rows(m) == Len(m.data)

\* size_t cols() const
cols(m) == IF Len(m.data) > 0 THEN Len(m.data[1]) ELSE 0

\* the rectangular 2-D data a caller passes to the list / vector constructors
\* (row lengths are the caller's responsibility; ragged data is left out)
Shapes == {s \in (0..MaxRows) \X (0..MaxCols) : s[1] * s[2] <= MaxCells}

RectData == UNION {[1..s[1] -> [1..s[2] -> Vals]] : s \in Shapes}

\* every matrix object a constructor can produce
Constructed ==
    {MatrixDefault}
        \cup {MatrixFill(s[1], s[2], v) : s \in Shapes, v \in Vals}
        \cup {MatrixList(d) : d \in RectData}

\* ------------------------------------------------------------- accessors

\* operator[] without its _cache.clear()
IndexMut_KeepsCache(m) == m

\* std::vector<T> &operator[](size_t i): the cache is cleared before the row
\* is looked up.  _data[i] is unchecked.
IndexMut(m) == [m EXCEPT !.cache = <<>>]

\* m[i][j] = v through the mutable accessor, (i, j) inside the store
\* a const accessor that clears the cache as the mutable one does
IndexConst_ClearsCache(m, i) ==
    IF i >= rows(m)
    THEN [self |-> m, err |-> "IndexOutOfRange", row |-> <<>>]
    ELSE [self |-> [m EXCEPT !.cache = <<>>], err |-> "none", row |-> m.data[i + 1]]

\* const std::vector<T> &operator[](size_t i) const: _data.at(i), which throws
\* std::out_of_range past the last row
IndexConst(m, i) ==
    IF i >= rows(m)
    THEN [self |-> m, err |-> "IndexOutOfRange", row |-> <<>>]
    ELSE [self |-> m, err |-> "none", row |-> m.data[i + 1]]

SetElem(m, i, j, v) == [IndexMut(m) EXCEPT !.data[i + 1][j + 1] = v]

\* a write through a row reference: the vector's own operator[], which knows
\* nothing of the matrix or its cache
RefWrite(m, i, j, v) == [m EXCEPT !.data[i + 1][j + 1] = v]

\* ------------------------------------------------------------- transpose

\* the two loops of transpose(): m_T[i][j] = _data[j][i]
RECURSIVE TransposeLoop(_, _, _, _)
TransposeLoop(m_T, data, i, j) ==
    IF i >= Len(data[1]) THEN m_T
    ELSE IF j >= Len(data) THEN TransposeLoop(m_T, data, i + 1, 0)
    ELSE TransposeLoop(SetElem(m_T, i, j, data[j + 1][i + 1]), data, i, j + 1)

\* a transpose() that never looks at the cache
transpose_Recomputes(m) ==
    IF Len(m.data) > 0
    THEN LET m_T == TransposeLoop(MatrixFill(cols(m), rows(m), Zero),
                                  m.data, 0, 0)
         IN  [self |-> [m EXCEPT !.cache = <<m_T>>], ret |-> m_T, miss |-> 1]
    ELSE [self |-> m, ret |-> m, miss |-> 0]

\* matrix<T> transpose(): [self: the object afterwards, ret: the matrix
\* returned by value, miss: 1 when the transpose was computed]
transpose(m) ==
    IF Len(m.cache) > 0
    THEN [self |-> m, ret |-> Head(m.cache), miss |-> 0]
    ELSE IF Len(m.data) > 0
         THEN LET m_T == TransposeLoop(MatrixFill(cols(m), rows(m), Zero),
                                       m.data, 0, 0)
              IN  [self |-> [m EXCEPT !.cache = <<m_T>>], ret |-> m_T, miss |-> 1]
         ELSE [self |-> m, ret |-> m, miss |-> 0]

\* the implicitly declared copy constructor: _data and _cache are held by
\* value, so the copy has its own store and its own cache
CopyOf(m) == [data |-> m.data, cache |-> m.cache]

\* matrix<T> c = src; c[i][j] = v: [self: src afterwards, copy: c afterwards]
WriteToCopy(src, i, j, v) ==
    [self |-> src, copy |-> SetElem(CopyOf(src), i, j, v)]

\* a transpose() that returns a reference to its cached matrix, so that the
\* caller's write lands in the cache
WriteToTranspose_ByReference(src, i, j, v) ==
    LET t == transpose(src)
    IN  [self |-> IF Len(t.self.cache) > 0
                  THEN [t.self EXCEPT !.cache = <<SetElem(t.ret, i, j, v)>>]
                  ELSE t.self,
         copy |-> SetElem(CopyOf(t.ret), i, j, v)]

\* matrix<T> t = src.transpose(); t[i][j] = v: transpose() returns by value,
\* [self: src afterwards, copy: t afterwards]
WriteToTranspose(src, i, j, v) ==
    LET t == transpose(src)
    IN  [self |-> t.self, copy |-> SetElem(CopyOf(t.ret), i, j, v)]

\* ------------------------------------------------------------------- dot

NoValue == "no value"

\* the vectors dot() is given
Vectors == UNION {[1..n -> Vals] : n \in 0..MaxCols}

\* an accumulation loop that assigns the product instead of adding it
RECURSIVE DotLoop_Overwrites(_, _, _, _)
DotLoop_Overwrites(v1, v2, i, result) ==
    IF i >= Len(v1) THEN result
    ELSE DotLoop_Overwrites(v1, v2, i + 1, v1[i + 1] * v2[i + 1])

\* the accumulation loop of dot(): result += v1.at(i) * v2.at(i)
RECURSIVE DotLoop(_, _, _, _)
DotLoop(v1, v2, i, result) ==
    IF i >= Len(v1) THEN result
    ELSE DotLoop(v1, v2, i + 1, result + (v1[i + 1] * v2[i + 1]))

\* static T dot(v1, v2): throws invalid_dimension(v1.size(), v2.size())
dot(v1, v2) ==
    IF Len(v1) # Len(v2)
    THEN [err |-> "DimensionMismatch", s1 |-> Len(v1), s2 |-> Len(v2), val |-> NoValue]
    ELSE [err |-> "none", s1 |-> Len(v1), s2 |-> Len(v2),
          val |-> DotLoop(v1, v2, 0, Zero)]

\* -------------------------------------------------------------- multiply

\* the order in which a build evaluates the two arguments of
\* dot(m1[i], m2.transpose()[j]); the language leaves it unspecified
ArgOrders == {"m1_first", "m2_first"}

\* the arguments of one dot(m1[i], m2.transpose()[j]) call on the objects x, y
\* of ms: m1[i] goes through the mutable accessor (m1 is a non-const
\* reference), m2.transpose() through the cache of m2
DotArgs(ms, x, y, order, i, j) ==
    IF order = "m1_first"
    THEN LET ms1 == [ms EXCEPT ![x] = IndexMut(@)]
             t   == transpose(ms1[y])
             ms2 == [ms1 EXCEPT ![y] = t.self]
         IN  [ms |-> ms2, v1 |-> ms2[x].data[i + 1],
              v2 |-> IndexMut(t.ret).data[j + 1], miss |-> t.miss]
    ELSE LET t   == transpose(ms[y])
             ms1 == [ms EXCEPT ![y] = t.self]
             ms2 == [ms1 EXCEPT ![x] = IndexMut(@)]
         IN  [ms |-> ms2, v1 |-> ms2[x].data[i + 1],
              v2 |-> IndexMut(t.ret).data[j + 1], miss |-> t.miss]

\* a double loop that stores each element in m1 as well as in result
RECURSIVE MultiplyLoop_WritesM1(_, _, _, _, _, _, _, _)
MultiplyLoop_WritesM1(ms, x, y, order, result, i, j, misses) ==
    IF i >= rows(ms[x])
    THEN [ms |-> ms, err |-> "none", ret |-> result, misses |-> misses]
    ELSE IF j >= cols(ms[y])
    THEN MultiplyLoop_WritesM1(ms, x, y, order, result, i + 1, 0, misses)
    ELSE LET a == DotArgs(ms, x, y, order, i, j)
             d == dot(a.v1, a.v2)
         IN  IF d.err # "none"
             THEN [ms |-> a.ms, err |-> d.err, ret |-> NoValue,
                   misses |-> misses + a.miss]
             ELSE MultiplyLoop_WritesM1(
                      [a.ms EXCEPT ![x] = IF j < cols(a.ms[x])
                                          THEN [@ EXCEPT !.data[i + 1][j + 1] = d.val]
                                          ELSE @],
                      x, y, order, SetElem(result, i, j, d.val),
                      i, j + 1, misses + a.miss)

\* the double loop of multiply(): result[i][j] = dot(m1[i], m2.transpose()[j])
RECURSIVE MultiplyLoop(_, _, _, _, _, _, _, _)
MultiplyLoop(ms, x, y, order, result, i, j, misses) ==
    IF i >= rows(ms[x])
    THEN [ms |-> ms, err |-> "none", ret |-> result, misses |-> misses]
    ELSE IF j >= cols(ms[y])
    THEN MultiplyLoop(ms, x, y, order, result, i + 1, 0, misses)
    ELSE LET a == DotArgs(ms, x, y, order, i, j)
             d == dot(a.v1, a.v2)
         IN  IF d.err # "none"
             THEN [ms |-> a.ms, err |-> d.err, ret |-> NoValue,
                   misses |-> misses + a.miss]
             ELSE MultiplyLoop(a.ms, x, y, order, SetElem(result, i, j, d.val),
                               i, j + 1, misses + a.miss)

\* multiply() whose size check looks at m1 only
multiply_ChecksM1Only(ms, x, y, order) ==
    IF rows(ms[x]) = 0
    THEN [ms |-> ms, err |-> "EmptyOperand", ret |-> NoValue, misses |-> 0]
    ELSE MultiplyLoop(ms, x, y, order,
                      MatrixFill(rows(ms[x]), cols(ms[y]), Zero), 0, 0, 0)

\* static matrix<T> multiply(matrix<T> &m1, matrix<T> &m2) on the objects x, y
\* of ms (x = y when one object is passed twice)
multiply(ms, x, y, order) ==
    IF rows(ms[x]) = 0 \/ rows(ms[y]) = 0
    THEN [ms |-> ms, err |-> "EmptyOperand", ret |-> NoValue, misses |-> 0]
    ELSE MultiplyLoop(ms, x, y, order,
                      MatrixFill(rows(ms[x]), cols(ms[y]), Zero), 0, 0, 0)

\* the objects of ms and the temporary tmp a product is held in
WithTemp(ms, tmp) == [k \in DOMAIN ms \cup {0} |-> IF k = 0 THEN tmp ELSE ms[k]]

\* the named objects of ms again, once the temporary is gone
WithoutTemp(ms) == [k \in DOMAIN ms \ {0} |-> ms[k]]

\* m1 * m2 on the objects x, y of ms (0 is the temporary an earlier product is
\* held in), the product held in a new temporary: the one [ms, err] it gives
Products(ms, x, y, order) ==
    {IF r.err # "none"
     THEN [ms |-> WithoutTemp(r.ms), err |-> r.err]
     ELSE [ms |-> WithTemp(WithoutTemp(r.ms), r.ret), err |-> "none"]
        : r \in {multiply(ms, x, y, order)}}

\* ------------------------------------------------------------ comparison

\* element loops of operator!= that stop after the first row
RECURSIVE NeqLoop_FirstRowOnly(_, _, _, _)
NeqLoop_FirstRowOnly(a, rhs, i, j) ==
    IF i >= 1 THEN FALSE
    ELSE IF j >= cols(a) THEN NeqLoop_FirstRowOnly(a, rhs, i + 1, 0)
    ELSE IF a.data[i + 1][j + 1] # rhs.data[i + 1][j + 1] THEN TRUE
    ELSE NeqLoop_FirstRowOnly(a, rhs, i, j + 1)

\* the element loops of operator!=
RECURSIVE NeqLoop(_, _, _, _)
NeqLoop(a, rhs, i, j) ==
    IF i >= rows(a) THEN FALSE
    ELSE IF j >= cols(a) THEN NeqLoop(a, rhs, i + 1, 0)
    ELSE IF a.data[i + 1][j + 1] # rhs.data[i + 1][j + 1] THEN TRUE
    ELSE NeqLoop(a, rhs, i, j + 1)

\* bool operator!=(const matrix<T> &rhs)
OpNeq(a, rhs) ==
    IF rows(a) # rows(rhs) \/ cols(a) # cols(rhs) THEN TRUE
    ELSE NeqLoop(a, rhs, 0, 0)

\* bool operator==(const matrix<T> &rhs)
OpEq(a, rhs) == ~OpNeq(a, rhs)

\* ------------------------------------------------------------ operations

NoPrev == [op |-> "none", args |-> <<>>, cached |-> FALSE]

\* what an operation hands back: a matrix (transpose, multiply), a row (the
\* accessors), a truth value (the comparisons), or nothing when it throws
NoRet == [mat |-> <<>>, row |-> <<>>, truth |-> FALSE, val |-> <<>>, sizes |-> <<>>]
RetMat(m) == [NoRet EXCEPT !.mat = <<m>>]
RetRow(r) == [NoRet EXCEPT !.row = <<r>>]
RetBool(b) == [NoRet EXCEPT !.truth = b]
RetVal(v) == [NoRet EXCEPT !.val = <<v>>]
\* what print() writes to the stream: one line for each row of _data
Printed(m) == [NoRet EXCEPT !.row = m.data]
\* the two sizes an invalid_dimension is constructed from
Sizes(s1, s2) == [NoRet EXCEPT !.sizes = <<s1, s2>>]

\* what the operation that ran last was given and what came of it: cached
\* tells whether the target's cache was populated when the operation began,
\* misses how many times a transpose was computed during it, prev (kept for
\* transpose() only) the element write that ran just before it, if one did
Outcome(op, args, err, ret, misses, cached) ==
    [op |-> op, args |-> args, err |-> err, ret |-> ret,
     misses |-> misses, cached |-> cached, prev |-> NoPrev]

\* what an unchecked _data[i] with i >= size() can do in a build: hand out a
\* reference to memory that is no row, or bring the process down
UBOutcomes == {"wild_reference", "crash"}

\* the process is still running
Alive == last.err # "crash"

Objs == DOMAIN mats

HasCache(x) == Len(mats[x].cache) > 0

\* a caller calls m.transpose()
Transpose(x) ==
    /\ Alive
    /\ \E t \in {transpose(mats[x])} :
           /\ mats' = [mats EXCEPT ![x] = t.self]
           /\ last' = [Outcome("transpose", <<x>>, "none", RetMat(t.ret), t.miss, HasCache(x))
                          EXCEPT !.prev = IF last.op = "set"
                                          THEN [op |-> last.op, args |-> last.args,
                                                cached |-> last.cached]
                                          ELSE NoPrev]
    /\ UNCHANGED refs

\* a caller calls multiply(m1, m2), m1.multiply(m2) or m1 * m2
Multiply(x, y, order) ==
    /\ Alive
    /\ \E r \in {multiply(mats, x, y, order)} :
           /\ mats' = r.ms
           /\ last' = Outcome("multiply", <<x, y>>, r.err,
                              IF r.err = "none" THEN RetMat(r.ret) ELSE NoRet,
                              r.misses, HasCache(y))
    /\ UNCHANGED refs

\* a caller holds the transpose of src in dst and writes an element of it
TransposeThenWrite(dst, src, i, j, v) ==
    /\ Alive
    /\ dst # src
    /\ \A ref \in refs : ref[1] # dst
    /\ i < cols(mats[src])
    /\ j < rows(mats[src])
    /\ \E w \in {WriteToTranspose(mats[src], i, j, v)} :
           mats' = [mats EXCEPT ![src] = w.self, ![dst] = w.copy]
    /\ last' = Outcome("transpose_write", <<dst, src, i, j, v>>, "none", NoRet, 0,
                       HasCache(src))
    /\ UNCHANGED refs

\* a caller holds a copy of src in dst and writes an element of it
CopyThenWrite(dst, src, i, j, v) ==
    /\ Alive
    /\ dst # src
    /\ \A ref \in refs : ref[1] # dst
    /\ i < rows(mats[src])
    /\ j < cols(mats[src])
    /\ \E w \in {WriteToCopy(mats[src], i, j, v)} :
           mats' = [mats EXCEPT ![src] = w.self, ![dst] = w.copy]
    /\ last' = Outcome("copy_write", <<dst, src, i, j, v>>, "none", NoRet, 0,
                       HasCache(src))
    /\ UNCHANGED refs

\* a caller constructs matrix<T>(r, c, v) and holds it in x
Construct(x, r, c, v) ==
    /\ Alive
    /\ \A ref \in refs : ref[1] # x
    /\ \E m \in {MatrixFill(r, c, v)} :
           /\ mats' = [mats EXCEPT ![x] = m]
           /\ last' = Outcome("construct", <<x, r, c, v>>, "none", RetMat(m), 0, FALSE)
    /\ UNCHANGED refs

\* a caller evaluates dot(v1, v2)
Dot(v1, v2) ==
    /\ Alive
    /\ \E d \in {dot(v1, v2)} :
           last' = Outcome("dot", <<v1, v2>>, d.err,
                           IF d.err = "none" THEN RetVal(d.val) ELSE Sizes(d.s1, d.s2),
                           0, FALSE)
    /\ UNCHANGED <<mats, refs>>

\* a caller evaluates a * b * c, which is (a * b) * c, and then bc = b * c and
\* a * bc; an exception ends the sequence where it is thrown
Chain(x, y, z, order) ==
    /\ Alive
    /\ \E ab \in Products(mats, x, y, order) :
       \E abc \in IF ab.err = "none" THEN Products(ab.ms, 0, z, order) ELSE {ab} :
       \E bc \in IF abc.err = "none"
                 THEN Products(WithoutTemp(abc.ms), y, z, order) ELSE {abc} :
       \E a_bc \in IF bc.err = "none" THEN Products(bc.ms, x, 0, order) ELSE {bc} :
           /\ mats' = WithoutTemp(a_bc.ms)
           /\ last' = Outcome("chain", <<x, y, z>>, a_bc.err,
                              IF a_bc.err = "none"
                              THEN [NoRet EXCEPT !.mat = <<abc.ms[0], a_bc.ms[0]>>]
                              ELSE NoRet,
                              0, HasCache(y))
    /\ UNCHANGED refs

\* a caller reads row i of a const matrix: _data.at(i)
At(x, i) ==
    /\ Alive
    /\ \E r \in {IndexConst(mats[x], i)} :
           /\ mats' = [mats EXCEPT ![x] = r.self]
           /\ last' = Outcome("at", <<x, i>>, r.err,
                              IF r.err = "none" THEN RetRow(r.row) ELSE NoRet,
                              0, HasCache(x))
    /\ UNCHANGED refs

\* a caller evaluates m.rows()
Rows(x) ==
    /\ Alive
    /\ last' = Outcome("rows", <<x>>, "none", RetVal(rows(mats[x])), 0, HasCache(x))
    /\ UNCHANGED <<mats, refs>>

\* a caller evaluates m.cols()
Cols(x) ==
    /\ Alive
    /\ last' = Outcome("cols", <<x>>, "none", RetVal(cols(mats[x])), 0, HasCache(x))
    /\ UNCHANGED <<mats, refs>>

\* a caller evaluates m.print(out)
PrintOut(x) ==
    /\ Alive
    /\ last' = Outcome("print", <<x>>, "none", Printed(mats[x]), 0, HasCache(x))
    /\ UNCHANGED <<mats, refs>>

\* a caller takes row i of a non-const matrix, std::vector<T> &r = m[i], and
\* keeps the reference (keep) or lets it go at the end of the statement
AtMut(x, i, keep) ==
    /\ Alive
    /\ i < rows(mats[x])
    /\ keep => Cardinality(refs \cup {<<x, i>>}) <= MaxRefs
    /\ mats' = [mats EXCEPT ![x] = IndexMut(@)]
    /\ refs' = IF keep THEN refs \cup {<<x, i>>} ELSE refs
    /\ last' = Outcome("at_mut", <<x, i>>, "none", RetRow(mats[x].data[i + 1]), 0,
                       HasCache(x))

\* the same with i >= rows(): _data[i] is past the end of the vector
AtMutPastEnd(x, i, outcome) ==
    /\ Alive
    /\ i >= rows(mats[x])
    /\ mats' = [mats EXCEPT ![x] = IndexMut(@)]
    /\ last' = Outcome("at_mut", <<x, i>>, outcome, NoRet, 0, HasCache(x))
    /\ UNCHANGED refs

\* a caller writes m[i][j] = v in one statement
Set(x, i, j, v) ==
    /\ Alive
    /\ i < rows(mats[x])
    /\ j < cols(mats[x])
    /\ mats' = [mats EXCEPT ![x] = SetElem(@, i, j, v)]
    /\ last' = Outcome("set", <<x, i, j, v>>, "none", NoRet, 0, HasCache(x))
    /\ UNCHANGED refs

\* a caller writes r[j] = v through a row reference taken earlier
WriteRef(ref, j, v) ==
    /\ Alive
    /\ ref \in refs
    /\ j < cols(mats[ref[1]])
    /\ mats' = [mats EXCEPT ![ref[1]] = RefWrite(@, ref[2], j, v)]
    /\ last' = Outcome("write_ref", <<ref[1], ref[2], j, v>>, "none", NoRet, 0,
                       HasCache(ref[1]))
    /\ UNCHANGED refs

\* a row reference goes out of scope
DropRef(ref) ==
    /\ Alive
    /\ ref \in refs
    /\ refs' = refs \ {ref}
    /\ UNCHANGED <<mats, last>>

\* a caller evaluates a != b
Neq(x, y) ==
    /\ Alive
    /\ last' = Outcome("neq", <<x, y>>, "none", RetBool(OpNeq(mats[x], mats[y])), 0,
                       HasCache(x))
    /\ UNCHANGED <<mats, refs>>

\* a caller evaluates a == b
Eq(x, y) ==
    /\ Alive
    /\ last' = Outcome("eq", <<x, y>>, "none", RetBool(OpEq(mats[x], mats[y])), 0,
                       HasCache(x))
    /\ UNCHANGED <<mats, refs>>

\* ------------------------------------------------------- specifications

Fresh == Outcome("constructed", <<>>, "none", NoRet, 0, FALSE)

\* one matrix object, built by any constructor
Init ==
    /\ mats \in [{1} -> Constructed]
    /\ refs = {}
    /\ last = Fresh

Next ==
    \/ \E x \in Objs : Transpose(x)
    \/ \E x \in Objs, y \in Objs, order \in ArgOrders : Multiply(x, y, order)
    \/ \E x \in Objs, i \in 0..MaxRows : At(x, i)
    \/ \E x \in Objs, i \in 0..MaxRows, keep \in BOOLEAN : AtMut(x, i, keep)
    \/ \E x \in Objs, i \in 0..MaxRows, o \in UBOutcomes : AtMutPastEnd(x, i, o)
    \/ \E x \in Objs, i \in 0..MaxRows, j \in 0..MaxCols, v \in Vals : Set(x, i, j, v)
    \/ \E ref \in refs, j \in 0..MaxCols, v \in Vals : WriteRef(ref, j, v)
    \/ \E ref \in refs : DropRef(ref)
    \/ \E x \in Objs, y \in Objs : Neq(x, y)
    \/ \E x \in Objs, y \in Objs : Eq(x, y)

Spec == Init /\ [][Next]_vars

\* two matrix objects
InitPair ==
    /\ mats \in [{1, 2} -> Constructed]
    /\ refs = {}
    /\ last = Fresh

\* the operations on two objects, with no row reference kept by the caller
NextPair ==
    \/ \E x \in Objs : Transpose(x)
    \/ \E x \in Objs, y \in Objs, order \in ArgOrders : Multiply(x, y, order)
    \/ \E x \in Objs, i \in 0..MaxRows : AtMut(x, i, FALSE)
    \/ \E x \in Objs, y \in Objs : Neq(x, y)
    \/ \E x \in Objs, y \in Objs : Eq(x, y)

SpecPair == InitPair /\ [][NextPair]_vars

\* two matrix objects of at most MaxPairCells elements, whose rows the caller
\* may keep references to
InitAlias ==
    /\ mats \in [{1, 2} -> {m \in Constructed : rows(m) * cols(m) <= MaxPairCells}]
    /\ refs = {}
    /\ last = Fresh

NextAlias ==
    \/ \E x \in Objs : Transpose(x)
    \/ \E x \in Objs, y \in Objs, order \in ArgOrders : Multiply(x, y, order)
    \/ \E x \in Objs, i \in 0..MaxRows, keep \in BOOLEAN : AtMut(x, i, keep)
    \/ \E ref \in refs, j \in 0..MaxCols, v \in Vals : WriteRef(ref, j, v)
    \/ \E ref \in refs : DropRef(ref)

SpecAlias == InitAlias /\ [][NextAlias]_vars

\* the read-only members on two objects whose caches transpose() fills
NextRead ==
    \/ \E x \in Objs : Transpose(x)
    \/ \E x \in Objs, i \in 0..MaxRows : At(x, i)
    \/ \E x \in Objs : Rows(x)
    \/ \E x \in Objs : Cols(x)
    \/ \E x \in Objs : PrintOut(x)
    \/ \E x \in Objs, y \in Objs : Neq(x, y)
    \/ \E x \in Objs, y \in Objs : Eq(x, y)

SpecRead == InitPair /\ [][NextRead]_vars

\* copies and returned transposes written to, on two objects
NextCopy ==
    \/ \E x \in Objs : Transpose(x)
    \/ \E x \in Objs, i \in 0..MaxRows : AtMut(x, i, FALSE)
    \/ \E dst \in Objs, src \in Objs, i \in 0..MaxCols, j \in 0..MaxRows, v \in Vals :
           TransposeThenWrite(dst, src, i, j, v)
    \/ \E dst \in Objs, src \in Objs, i \in 0..MaxRows, j \in 0..MaxCols, v \in Vals :
           CopyThenWrite(dst, src, i, j, v)

SpecCopy == InitPair /\ [][NextCopy]_vars

\* one object constructed anew, written, transposed and asked its shape
NextConstruct ==
    \/ \E x \in Objs, s \in Shapes, v \in Vals : Construct(x, s[1], s[2], v)
    \/ \E x \in Objs : Transpose(x)
    \/ \E x \in Objs, i \in 0..MaxRows, j \in 0..MaxCols, v \in Vals : Set(x, i, j, v)
    \/ \E x \in Objs : Rows(x)
    \/ \E x \in Objs : Cols(x)

SpecConstruct == Init /\ [][NextConstruct]_vars

\* three matrix objects a, b, c of at most MaxChainCells elements, whose rows
\* the caller may keep references to
InitChain ==
    /\ mats \in [{1, 2, 3} -> {m \in Constructed : rows(m) * cols(m) <= MaxChainCells}]
    /\ refs = {}
    /\ last = Fresh

NextChain ==
    \/ \E x \in Objs : Transpose(x)
    \/ \E x \in Objs, i \in 0..MaxRows, keep \in BOOLEAN : AtMut(x, i, keep)
    \/ \E ref \in refs, j \in 0..MaxCols, v \in Vals : WriteRef(ref, j, v)
    \/ \E order \in ArgOrders : Chain(1, 2, 3, order)

SpecChain == InitChain /\ [][NextChain]_vars

\* dot() applied to any two vectors
NextDot == \E v1 \in Vectors, v2 \in Vectors : Dot(v1, v2)

SpecDot == Init /\ [][NextDot]_vars

\* ------------------------------------------------ what the claims speak of

\* the mathematical transpose of a rectangular store
TrueTranspose(data) ==
    [j \in 1..(IF Len(data) > 0 THEN Len(data[1]) ELSE 0) |->
        [i \in 1..Len(data) |-> data[i][j]]]

\* the object an operation ran on, and the second one of a binary operation
Target == mats[last.args[1]]
Other == mats[last.args[2]]

\* the matrix the last operation returned
Ret == last.ret.mat[1]

\* the sum, in index order k = 1..n, of A[i][k] * B[k][j]
RECURSIVE SumProducts(_, _, _, _, _)
SumProducts(A, B, i, j, n) ==
    IF n = 0 THEN 0 ELSE SumProducts(A, B, i, j, n - 1) + A[i][n] * B[n][j]

\* same shape and equal elements throughout
SameShapeAndElements(A, B) ==
    /\ rows(A) = rows(B)
    /\ cols(A) = cols(B)
    /\ \A i \in 1..rows(A), j \in 1..cols(A) : A.data[i][j] = B.data[i][j]

\* --------------------------------------------------------------- claims

\* C1: whenever a matrix's transpose cache is present, it holds the true
\* transpose of the matrix's current store.
C1_CacheFresh ==
    \A x \in Objs :
        HasCache(x) => Head(mats[x].cache).data = TrueTranspose(mats[x].data)

\* C2: the matrix M_T returned by M.transpose() has M_T.rows() = M.cols(),
\* M_T.cols() = M.rows() and M_T[j][i] = M[i][j] for every valid (i, j).
C2_TransposeContract ==
    last.op = "transpose" =>
        /\ rows(Ret) = cols(Target)
        /\ cols(Ret) = rows(Target)
        /\ \A i \in 1..rows(Target), j \in 1..cols(Target) :
               Ret.data[j][i] = Target.data[i][j]

\* C3: for rectangular m1, m2 with rows > 0 and m1.cols() = m2.rows(),
\* multiply(m1, m2) succeeds and returns the m1.rows() x m2.cols() matrix whose
\* entry [i][j] is the sum over k, in index order, of m1[i][k] * m2[k][j].
C3_MultiplyProduct ==
    (/\ last.op = "multiply"
     /\ rows(Target) > 0
     /\ rows(Other) > 0
     /\ cols(Target) = rows(Other)) =>
        /\ last.err = "none"
        /\ rows(Ret) = rows(Target)
        /\ cols(Ret) = cols(Other)
        /\ \A i \in 1..rows(Target), j \in 1..cols(Other) :
               Ret.data[i][j] =
                   SumProducts(Target.data, Other.data, i, j, cols(Target))

\* C4: for m1, m2 with rows > 0 whose inner dimensions disagree, multiply(m1, m2)
\* fails with DimensionMismatch and never completes successfully.
C4_MismatchRejected ==
    (/\ last.op = "multiply"
     /\ rows(Target) > 0
     /\ rows(Other) > 0
     /\ cols(Target) # rows(Other)) =>
        /\ last.err = "DimensionMismatch"
        /\ last.ret = NoRet

\* C5: row access with an index i >= rows() fails with IndexOutOfRange, for the
\* read-only accessor and for the mutable accessor alike.
C5_IndexChecked ==
    (/\ last.op \in {"at", "at_mut"}
     /\ last.args[2] >= rows(Target)) =>
        /\ last.err = "IndexOutOfRange"
        /\ last.ret = NoRet

\* C6: M.transpose().transpose() equals M for every M with rows > 0, and
\* M.transpose() equals M for every M with zero rows.
C6_RoundTrip ==
    last.op = "transpose" =>
        IF rows(Target) > 0
        THEN OpEq(transpose(Ret).ret, Target)
        ELSE OpEq(Ret, Target)

\* C7: multiply with a zero-row operand fails with EmptyOperand before any
\* computation: nothing is returned, no transpose is computed, and the store
\* and cache of both operands stay as they were.
C7_EmptyOperand ==
    [][(/\ last'.op = "multiply"
        /\ \/ rows(mats[last'.args[1]]) = 0
           \/ rows(mats[last'.args[2]]) = 0) =>
            /\ last'.err = "EmptyOperand"
            /\ last'.ret = NoRet
            /\ last'.misses = 0
            /\ mats' = mats]_vars

\* an empty right operand was rejected and the left operand, which has rows,
\* still holds the cache it had
C7_Witness ==
    /\ last.op = "multiply"
    /\ last.err = "EmptyOperand"
    /\ last.args[1] # last.args[2]
    /\ rows(Other) = 0
    /\ rows(Target) > 0
    /\ HasCache(last.args[1])

\* C8: during one multiply(m1, m2), also when m1 and m2 are the same object,
\* the transpose of m2 is computed at most once.
C8_TransposeOnce == last.op = "multiply" => last.misses <= 1

\* C9: after transpose() has populated the cache, a write m[i][j] = v through
\* the mutable accessor followed by transpose() returns the true transpose of
\* the written store, with v at [j][i].
C9_WriteThenTranspose ==
    (/\ last.op = "transpose"
     /\ last.prev.op = "set"
     /\ last.prev.cached
     /\ last.prev.args[1] = last.args[1]) =>
        /\ Ret.data = TrueTranspose(Target.data)
        /\ Ret.data[last.prev.args[3] + 1][last.prev.args[2] + 1]
               = last.prev.args[4]

\* a cache was populated, an element was then written, and transpose() ran next
C9_Witness ==
    /\ last.op = "transpose"
    /\ last.prev.op = "set"
    /\ last.prev.cached
    /\ last.prev.args[1] = last.args[1]
    /\ rows(Target) > 1
    /\ cols(Target) > 1
    /\ last.prev.args[4] # Zero

\* C10: A == B holds iff A and B have equal rows(), equal cols() and equal
\* elements; != is the negation of ==; equality is reflexive and symmetric, and
\* matrices of different shape are never equal.
C10_Equality ==
    /\ last.op = "eq" => (last.ret.truth <=> SameShapeAndElements(Target, Other))
    /\ last.op = "neq" => (last.ret.truth <=> ~SameShapeAndElements(Target, Other))
    /\ \A x \in Objs, y \in Objs :
           /\ OpEq(mats[x], mats[x])
           /\ OpEq(mats[x], mats[y]) <=> OpEq(mats[y], mats[x])
           /\ OpNeq(mats[x], mats[y]) <=> ~OpEq(mats[x], mats[y])
           /\ (rows(mats[x]) # rows(mats[y]) \/ cols(mats[x]) # cols(mats[y]))
                  => ~OpEq(mats[x], mats[y])

\* two distinct objects of the same shape with elements were compared with ==
\* and found equal
C10_Witness ==
    /\ last.op = "eq"
    /\ last.args[1] # last.args[2]
    /\ rows(Target) > 1
    /\ cols(Target) > 1
    /\ last.ret.truth

\* C11: for A (p x q), B (q x r), C (r x s) with p, q, r, s >= 1, (A*B)*C and
\* A*(B*C) both succeed, both have shape p x s, and they are equal element by
\* element.
C11_Associative ==
    (/\ last.op = "chain"
     /\ rows(mats[last.args[1]]) >= 1
     /\ cols(mats[last.args[1]]) >= 1
     /\ rows(mats[last.args[2]]) = cols(mats[last.args[1]])
     /\ cols(mats[last.args[2]]) >= 1
     /\ rows(mats[last.args[3]]) = cols(mats[last.args[2]])
     /\ cols(mats[last.args[3]]) >= 1) =>
        /\ last.err = "none"
        /\ \A k \in 1..2 :
               /\ rows(last.ret.mat[k]) = rows(mats[last.args[1]])
               /\ cols(last.ret.mat[k]) = cols(mats[last.args[3]])
        /\ SameShapeAndElements(last.ret.mat[1], last.ret.mat[2])

\* T() plus the products v1[k] * v2[k] for k = 1..n, added in increasing order
RECURSIVE DotSum(_, _, _)
DotSum(v1, v2, n) ==
    IF n = 0 THEN Zero ELSE DotSum(v1, v2, n - 1) + (v1[n] * v2[n])

\* C12: dot(v1, v2) fails with DimensionMismatch carrying both lengths exactly
\* when the lengths differ; with equal lengths it never fails and returns T()
\* plus the products v1[k] * v2[k] in increasing index order, T() for two
\* empty vectors.
C12_Dot ==
    last.op = "dot" =>
        LET v1 == last.args[1]
            v2 == last.args[2]
        IN  /\ (last.err = "DimensionMismatch") <=> (Len(v1) # Len(v2))
            /\ Len(v1) # Len(v2) => last.ret = Sizes(Len(v1), Len(v2))
            /\ Len(v1) = Len(v2) =>
                   /\ last.err = "none"
                   /\ last.ret = RetVal(DotSum(v1, v2, Len(v1)))
            /\ (Len(v1) = 0 /\ Len(v2) = 0) => last.ret = RetVal(Zero)

C12_Witness ==
    /\ last.op = "dot"
    /\ Len(last.args[1]) = 2
    /\ Len(last.args[2]) = 2
    /\ last.err = "none"
    /\ last.ret.val = <<2>>

ReadOnlyOps == {"rows", "cols", "at", "eq", "neq", "print"}

NoCache(m) == [m EXCEPT !.cache = <<>>]

\* C13: rows(), cols(), read-only row access, ==, != and print leave the store
\* and the transpose cache of every matrix unchanged, and the result of == and
\* != is the one the operands give with their caches emptied.
C13_ReadOnly ==
    [][last'.op \in ReadOnlyOps =>
          /\ mats' = mats
          /\ last'.op = "neq" =>
                 last'.ret.truth = OpNeq(NoCache(mats[last'.args[1]]),
                                         NoCache(mats[last'.args[2]]))
          /\ last'.op = "eq" =>
                 last'.ret.truth = OpEq(NoCache(mats[last'.args[1]]),
                                        NoCache(mats[last'.args[2]]))]_vars

C13_Witness ==
    /\ last.op = "at"
    /\ last.err = "none"
    /\ last.cached
    /\ HasCache(last.args[1])
    /\ \E x \in Objs, y \in Objs : HasCache(x) /\ ~HasCache(y)

\* C14: mutable row access at a valid index leaves the cache empty on return,
\* whether it was present or not and whether or not the caller then writes an
\* element, equal to the old one or not; the access alone leaves the store as
\* it was and a write changes the one element written.
C14_AccessClearsCache ==
    [][(last'.op \in {"at_mut", "set"} /\ last'.err = "none") =>
          LET x == last'.args[1]
              i == last'.args[2]
          IN  /\ mats'[x].cache = <<>>
              /\ last'.op = "at_mut" =>
                     /\ mats'[x].data = mats[x].data
                     /\ last'.ret = RetRow(mats[x].data[i + 1])
              /\ last'.op = "set" =>
                     mats'[x].data =
                         [mats[x].data EXCEPT ![i + 1][last'.args[3] + 1] = last'.args[4]]]_vars

C14_Witness ==
    /\ last.op = "set"
    /\ last.cached
    /\ mats[last.args[1]].data[last.args[2] + 1][last.args[3] + 1] = last.args[4]
    /\ ~HasCache(last.args[1])
    /\ rows(mats[last.args[1]]) = 2

\* the step calls the mutable operator[] of object x: the caller's m[i], or
\* multiply(m, m2), whose loop body evaluates m1[i]
MutableAccess(x) ==
    /\ last' # last
    /\ last'.args # <<>>
    /\ last'.args[1] = x
    /\ \/ last'.op \in {"at_mut", "set"}
       \/ /\ last'.op = "multiply"
          /\ last'.err # "EmptyOperand"
          /\ cols(mats[last'.args[2]]) > 0

C16_IndependentValue ==
    [][/\ last'.op = "transpose_write" =>
              LET dst == last'.args[1]
                  src == last'.args[2]
                  t   == transpose(mats[src])
              IN  /\ mats'[src].data = mats[src].data
                  /\ mats'[src].cache = t.self.cache
                  /\ transpose(mats'[src]).ret = t.ret
                  /\ transpose(mats'[src]).ret.data = TrueTranspose(mats[src].data)
                  /\ mats'[dst].data[last'.args[3] + 1][last'.args[4] + 1] = last'.args[5]
       /\ last'.op = "copy_write" =>
              LET dst == last'.args[1]
                  src == last'.args[2]
              IN  /\ mats'[src] = mats[src]
                  /\ mats'[dst].data[last'.args[3] + 1][last'.args[4] + 1] = last'.args[5]]_vars

C16_Witness ==
    /\ last.op = "transpose_write"
    /\ last.cached
    /\ HasCache(last.args[2])
    /\ mats[last.args[1]].data # Head(mats[last.args[2]].cache).data
    /\ Head(mats[last.args[2]].cache).data = TrueTranspose(mats[last.args[2]].data)

\* C17: multiply(m1, m2), whether it returns or fails with EmptyOperand or
\* DimensionMismatch, leaves the element store of both operands as it was,
\* also when m1 and m2 are the same instance.
C17_OperandsKept ==
    [][last'.op = "multiply" =>
          \A x \in Objs : mats'[x].data = mats[x].data]_vars

C17_Witness ==
    /\ last.op = "multiply"
    /\ last.args[1] = last.args[2]
    /\ last.err = "none"
    /\ rows(mats[last.args[1]]) = 2
    /\ last.ret.mat[1].data # mats[last.args[1]].data

\* C18: for two different instances m1, m2 with m1.rows() > 0, m2.rows() > 0
\* and m2.cols() > 0, after multiply(m1, m2) returns or fails with
\* DimensionMismatch the cache of m1 is empty and the cache of m2 is present
\* and holds the true transpose of m2.
C18_CachesAfterMultiply ==
    (/\ last.op = "multiply"
     /\ last.args[1] # last.args[2]
     /\ rows(Target) > 0
     /\ rows(Other) > 0
     /\ cols(Other) > 0
     /\ last.err \in {"none", "DimensionMismatch"}) =>
        /\ Target.cache = <<>>
        /\ Len(Other.cache) > 0
        /\ Head(Other.cache).data = TrueTranspose(Other.data)

\* C19: matrix(r, c, fill) has rows() = r, r rows of length c, every element
\* equal to fill, an empty cache, and cols() = c when r > 0 and 0 when r = 0;
\* in every reachable state a matrix with zero rows reports cols() = 0.
C19_Constructor ==
    /\ last.op = "construct" =>
           LET m    == mats[last.args[1]]
               r    == last.args[2]
               c    == last.args[3]
               fill == last.args[4]
           IN  /\ last.ret = RetMat(m)
               /\ rows(m) = r
               /\ Len(m.data) = r
               /\ \A i \in 1..r :
                      /\ Len(m.data[i]) = c
                      /\ \A j \in 1..c : m.data[i][j] = fill
               /\ m.cache = <<>>
               /\ cols(m) = IF r > 0 THEN c ELSE 0
    /\ \A x \in Objs :
           /\ rows(mats[x]) = 0 => cols(mats[x]) = 0
           /\ \A k \in 1..Len(mats[x].cache) :
                  rows(mats[x].cache[k]) = 0 => cols(mats[x].cache[k]) = 0
    /\ (last.op = "cols" /\ rows(mats[last.args[1]]) = 0) => last.ret = RetVal(0)

C19_Witness ==
    /\ last.op = "construct"
    /\ last.args[2] = 2
    /\ last.args[3] = 2
    /\ last.args[4] = 1
    /\ mats[last.args[1]].data = <<<<1, 1>>, <<1, 1>>>>

====
